---- MODULE Spec2Model ----
(***************************************************************************)
(* Model of the broadcast hub of src/main.go: the ClientManager loop       *)
(* (start), its directed-send helper (send), the per-connection read and   *)
(* write pumps (Client.read, Client.write) and the admission handler       *)
(* (wsPage).  Every channel of the program is unbuffered, so a channel     *)
(* send is a rendezvous: one action moves both the sender and the          *)
(* receiver.                                                               *)
(***************************************************************************)
EXTENDS Integers, Sequences, FiniteSets, TLC

\* ------------------------------------------------------------------ bounds
NumConns == 2
MaxReads == 1
MaxPaused == 1
MaxWriteErrs == 1

Conns == 1..NumConns
None == 0

\* Client.id: the string form of a fresh UUID, one per connection.
ID(c) == "id" \o ToString(c)

\* ----------------------------------------------------------- the envelope
\* Bytes a Transport read may return: one ASCII byte and one byte that is
\* not valid UTF-8 on its own.
Payloads == {<<"h">>, <<"0xFF">>}

JoinText == <<"/A new socket has connected.">>
LeftText == <<"/A socket has disconnected.">>

\* json.Marshal writes a Go string as JSON text: every byte that is not
\* part of a valid UTF-8 sequence becomes U+FFFD.
ToValidUTF8(s) == [i \in 1..Len(s) |-> IF s[i] = "0xFF" THEN "U+FFFD" ELSE s[i]]

\* Message{Sender, Recipient, Content} through json.Marshal: every field is
\* omitempty, so the object holds the non-empty fields only.
Marshal(sender, recipient, content) ==
    LET fields == (IF sender = "" THEN {} ELSE {"sender"})
                  \cup (IF recipient = "" THEN {} ELSE {"recipient"})
                  \cup (IF content = <<>> THEN {} ELSE {"content"})
    IN [f \in fields |-> CASE f = "sender" -> sender
                           [] f = "recipient" -> recipient
                           [] f = "content" -> ToValidUTF8(content)]

\* What a peer decodes from an envelope: an absent field reads as empty.
SenderOf(m) == IF "sender" \in DOMAIN m THEN m["sender"] ELSE ""
RecipientOf(m) == IF "recipient" \in DOMAIN m THEN m["recipient"] ELSE ""
ContentOf(m) == IF "content" \in DOMAIN m THEN m["content"] ELSE <<>>

JoinMsg == Marshal("", "", JoinText)
LeftMsg == Marshal("", "", LeftText)
NoMsg == Marshal("", "", <<>>)

\* ------------------------------------------------------------------ state
VARIABLES
    clients,     \* manager.clients: the registry
    hpc,         \* where the Hub loop is
    hconn,       \* the connection the Hub took from register / unregister
    hmsg,        \* the message the Hub is fanning out
    htodo,       \* connections the current range loop has still to visit
    hcur,        \* the connection manager.send is blocked sending to
    wsp,         \* wsPage: where each connection's admission handler is
    rpc,         \* Client.read: where each read pump is
    rmsg,        \* the envelope a read pump is sending on broadcast
    wpc,         \* Client.write: where each write pump is
    wmsg,        \* the message a write pump is writing to its Transport
    sendClosed,  \* c.send has been closed
    sockClosed,  \* c.socket.Close() has been called
    paused,      \* the peer has stopped consuming: Transport writes block
    reads,       \* successful Transport reads so far (bounded by MaxReads)
    werrs,       \* Transport writes that failed on an open Transport (bounded)
    \* history
    rread,       \* per connection: the read (number, payload) whose envelope it holds
    hev,         \* the event the Hub is processing
    admitted,    \* connections whose register event the Hub processed
    removedAt,   \* per connection: the event at which the Hub removed it
    jsnap,       \* per connection: the registry when the Hub admitted it
    lsnap,       \* per connection: the registry after its first unregister event
    blog,        \* the broadcasts the Hub took: registry then, who was ready
    nRemoved,    \* number of removals the Hub performed
    nClosed,     \* per connection: number of close(conn.send) executed
    enq,         \* per connection: what the Hub handed to c.send, in order
    wire,        \* per connection: the WriteMessage calls made, in order, with outcome
    unregSent,   \* per connection: sends on manager.unregister
    sockCloses,  \* per connection: calls of c.socket.Close()
    readFailed,  \* per connection: a Transport read failed
    writeFailed  \* per connection: a Transport write failed

hubVars == <<clients, hpc, hconn, hmsg, htodo, hcur>>
connVars == <<wsp, rpc, rmsg, wpc, wmsg, sendClosed, sockClosed, paused, reads, werrs>>
histVars == <<rread, hev, admitted, jsnap, lsnap, blog, removedAt, nRemoved, nClosed, enq, wire,
              unregSent, sockCloses, readFailed, writeFailed>>
vars == <<hubVars, connVars, histVars>>

NoEvent == [n |-> 0, kind |-> "none", conn |-> None]
NoRemoval == [n |-> 0, kind |-> "none", conn |-> None, len |-> 0]
NoRead == [n |-> 0, payload |-> <<>>]

Init ==
    /\ clients = {}
    /\ hpc = "select"
    /\ hconn = None
    /\ hmsg = NoMsg
    /\ htodo = {}
    /\ hcur = None
    /\ wsp = [c \in Conns |-> "idle"]
    /\ rpc = [c \in Conns |-> "none"]
    /\ rmsg = [c \in Conns |-> NoMsg]
    /\ wpc = [c \in Conns |-> "none"]
    /\ wmsg = [c \in Conns |-> NoMsg]
    /\ sendClosed = [c \in Conns |-> FALSE]
    /\ sockClosed = [c \in Conns |-> FALSE]
    /\ paused = [c \in Conns |-> FALSE]
    /\ reads = 0
    /\ werrs = 0
    /\ rread = [c \in Conns |-> NoRead]
    /\ hev = NoEvent
    /\ admitted = {}
    /\ removedAt = [c \in Conns |-> NoRemoval]
    /\ jsnap = [c \in Conns |-> {}]
    /\ lsnap = [c \in Conns |-> {}]
    /\ blog = {}
    /\ nRemoved = 0
    /\ nClosed = [c \in Conns |-> 0]
    /\ enq = [c \in Conns |-> <<>>]
    /\ wire = [c \in Conns |-> <<>>]
    /\ unregSent = [c \in Conns |-> 0]
    /\ sockCloses = [c \in Conns |-> 0]
    /\ readFailed = [c \in Conns |-> FALSE]
    /\ writeFailed = [c \in Conns |-> FALSE]

AtSelect_Any == TRUE

\* The Hub takes an event from a channel only at the select of its loop.
AtSelect == hpc = "select"

\* ------------------------------------------------------- channel helpers
\* The Hub goroutine has panicked (send on, or close of, a closed channel):
\* an unrecovered panic ends the process.
Panic ==
    /\ hpc' = "panic"
    /\ UNCHANGED <<clients, hconn, hmsg, htodo, hcur, connVars, histVars>>

\* close(conn.send) on a channel that is closed already: a panic.
PanicOnClose(c) ==
    /\ hpc' = "panic"
    /\ nClosed' = [nClosed EXCEPT ![c] = @ + 1]
    /\ UNCHANGED <<clients, hconn, hmsg, htodo, hcur, connVars, rread, hev,
                   admitted, jsnap, blog, removedAt, nRemoved, enq, wire,
                   unregSent, sockCloses, readFailed, writeFailed>>

\* A send on c.send can complete now: the write pump is parked in its
\* receive (the channel has no buffer).
CanAccept_Busy(c) == wpc[c] \in {"recv", "text"}
CanAccept(c) == wpc[c] = "recv"

\* manager.send: the connections the range loop sends to.
SendTargets_All(reg, ignore) == reg
SendTargets(reg, ignore) == reg \ {ignore}

BroadcastTargets_Others(reg, sender) == reg \ {sender}

\* The broadcast case: the connections its range loop visits.
BroadcastTargets(reg, sender) == reg

\* The guard of the unregister case.
IsRegistered_Always(c) == TRUE
IsRegistered(c) == c \in clients

\* manager.clients[conn] = true
AddClient_Drop(reg, c) == reg
AddClient(reg, c) == reg \cup {c}

\* delete(manager.clients, conn)
DeleteClient_Keep(reg, c) == reg
DeleteClient(reg, c) == reg \ {c}

EvictionNotice_Others(reg, t) == reg \ {t}

\* The connections told of the eviction of t: the default branch of the
\* broadcast case closes and deletes, and calls no manager.send.
EvictionNotice(reg, t) == {}

\* conn.send <- message completing: the write pump takes the message.
Handoff(c) ==
    /\ wpc' = [wpc EXCEPT ![c] = "text"]
    /\ wmsg' = [wmsg EXCEPT ![c] = hmsg]
    /\ enq' = [enq EXCEPT ![c] = Append(@, [msg |-> hmsg, ev |-> hev])]

\* close(conn.send); delete(manager.clients, conn)
CloseAndDelete(c) ==
    /\ sendClosed' = [sendClosed EXCEPT ![c] = TRUE]
    /\ nClosed' = [nClosed EXCEPT ![c] = @ + 1]
    /\ clients' = DeleteClient(clients, c)
    /\ removedAt' = [removedAt EXCEPT ![c] = [n |-> hev.n, kind |-> hev.kind,
                                              conn |-> hev.conn, len |-> Len(enq[c])]]
    /\ nRemoved' = nRemoved + 1

\* The Hub is back at its select: the locals of the case are out of scope.
HubIdle ==
    /\ hpc' = "select"
    /\ hconn' = None
    /\ hmsg' = NoMsg
    /\ htodo' = {}
    /\ hcur' = None
    /\ hev' = NoEvent

\* manager.send(msg, ignore) ranges over T, or returns at once when T is
\* empty.  The map's iteration order is unspecified: any target may come
\* first, and the loop blocks on the one it came to.
BeginSend(T, msg) ==
    IF T = {}
    THEN HubIdle
    ELSE /\ hpc' = "send"
         /\ hmsg' = msg
         /\ \E t \in T : hcur' = t /\ htodo' = T \ {t}
         /\ UNCHANGED <<hconn, hev>>

\* ------------------------------------------------------------ wsPage
Connect(c) ==
    /\ hpc # "panic"
    /\ wsp[c] = "idle"
    /\ wsp' = [wsp EXCEPT ![c] = "register"]
    /\ UNCHANGED <<hubVars, rpc, rmsg, wpc, wmsg, sendClosed, sockClosed, paused,
                   reads, werrs, histVars>>

StartRead(c) ==
    /\ hpc # "panic"
    /\ wsp[c] = "goread"
    /\ wsp' = [wsp EXCEPT ![c] = "gowrite"]
    /\ rpc' = [rpc EXCEPT ![c] = "read"]
    /\ UNCHANGED <<hubVars, rmsg, wpc, wmsg, sendClosed, sockClosed, paused,
                   reads, werrs, histVars>>

StartWrite(c) ==
    /\ hpc # "panic"
    /\ wsp[c] = "gowrite"
    /\ wsp' = [wsp EXCEPT ![c] = "done"]
    /\ wpc' = [wpc EXCEPT ![c] = "recv"]
    /\ UNCHANGED <<hubVars, rpc, rmsg, wmsg, sendClosed, sockClosed, paused,
                   reads, werrs, histVars>>

\* ------------------------------------------------- ClientManager.start
HubRecvRegister(c) ==
    /\ AtSelect
    /\ wsp[c] = "register"
    /\ wsp' = [wsp EXCEPT ![c] = "goread"]
    /\ hpc' = "reg"
    /\ hconn' = c
    /\ hev' = [n |-> 1, kind |-> "register", conn |-> c]
    /\ UNCHANGED <<rread, clients, hmsg, htodo, hcur, rpc, rmsg, wpc, wmsg, sendClosed,
                   sockClosed, paused, reads, werrs, admitted, jsnap, lsnap, blog, removedAt, nRemoved,
                   nClosed, enq, wire, unregSent, sockCloses, readFailed,
                   writeFailed>>

HubRegister ==
    /\ hpc = "reg"
    /\ clients' = AddClient(clients, hconn)
    /\ admitted' = admitted \cup {hconn}
    /\ jsnap' = [jsnap EXCEPT ![hconn] = clients \cup {hconn}]
    /\ BeginSend(SendTargets(clients', hconn), JoinMsg)
    /\ UNCHANGED <<connVars, rread, lsnap, blog, removedAt, nRemoved, nClosed, enq, wire,
                   unregSent, sockCloses, readFailed, writeFailed>>

HubRecvUnregister(c) ==
    /\ AtSelect
    /\ rpc[c] \in {"unreg1", "unreg2"}
    /\ rpc' = [rpc EXCEPT ![c] = IF @ = "unreg1" THEN "close1" ELSE "close2"]
    /\ hpc' = "unreg"
    /\ hconn' = c
    /\ hev' = [n |-> unregSent[c] + 1, kind |-> "unregister", conn |-> c]
    /\ unregSent' = [unregSent EXCEPT ![c] = @ + 1]
    /\ UNCHANGED <<rread, clients, hmsg, htodo, hcur, wsp, rmsg, wpc, wmsg, sendClosed,
                   sockClosed, paused, reads, werrs, admitted, jsnap, lsnap, blog, removedAt, nRemoved,
                   nClosed, enq, wire, sockCloses, readFailed, writeFailed>>

HubUnregister ==
    /\ hpc = "unreg"
    /\ lsnap' = IF hev.n = 1 THEN [lsnap EXCEPT ![hconn] = clients \ {hconn}]
                             ELSE lsnap
    /\ IF IsRegistered(hconn)
       THEN IF sendClosed[hconn]
            THEN PanicOnClose(hconn)
            ELSE /\ CloseAndDelete(hconn)
                 /\ BeginSend(SendTargets(clients', hconn), LeftMsg)
                 /\ UNCHANGED <<wsp, rpc, rmsg, wpc, wmsg, sockClosed, paused,
                                reads, werrs, rread, admitted, jsnap, blog, enq,
                                wire, unregSent, sockCloses, readFailed,
                                writeFailed>>
       ELSE /\ HubIdle
            /\ UNCHANGED <<clients, connVars, rread, admitted, jsnap, blog,
                           removedAt, nRemoved, nClosed, enq, wire, unregSent,
                           sockCloses, readFailed, writeFailed>>

\* manager.send blocked in conn.send <- message for the current target.
HubSend ==
    /\ hpc = "send"
    /\ IF sendClosed[hcur]
       THEN Panic
       ELSE /\ CanAccept(hcur)
            /\ Handoff(hcur)
            /\ BeginSend(htodo, hmsg)
            /\ UNCHANGED <<clients, wsp, rpc, rmsg, sendClosed, sockClosed,
                           paused, reads, werrs, rread, admitted, jsnap, lsnap, blog, removedAt,
                           nRemoved, nClosed, wire, unregSent, sockCloses,
                           readFailed, writeFailed>>

HubRecvBroadcast(c) ==
    /\ AtSelect
    /\ rpc[c] = "bcast"
    /\ rpc' = [rpc EXCEPT ![c] = "read"]
    /\ rmsg' = [rmsg EXCEPT ![c] = NoMsg]
    /\ rread' = [rread EXCEPT ![c] = NoRead]
    /\ blog' = blog \cup {[ev |-> [n |-> rread[c].n, kind |-> "broadcast", conn |-> c],
                           payload |-> rread[c].payload,
                           snap |-> clients,
                           stalled |-> {d \in clients : wpc[d] = "text" /\ paused[d]},
                           ready |-> {},
                           notready |-> {}]}
    /\ IF BroadcastTargets(clients, c) = {}
       THEN HubIdle
       ELSE /\ hpc' = "range"
            /\ hmsg' = rmsg[c]
            /\ htodo' = BroadcastTargets(clients, c)
            /\ hev' = [n |-> rread[c].n, kind |-> "broadcast", conn |-> c]
            /\ UNCHANGED <<hconn, hcur>>
    /\ UNCHANGED <<clients, wsp, wpc, wmsg, sendClosed, sockClosed, paused,
                   reads, werrs, admitted, jsnap, lsnap, removedAt, nRemoved,
                   nClosed, enq, wire, unregSent, sockCloses, readFailed,
                   writeFailed>>

\* The record of the broadcast in progress, with t noted as visited.
Visited(t) ==
    LET b == CHOOSE x \in blog : x.ev = hev
    IN (blog \ {b}) \cup
       {IF wpc[t] = "recv" THEN [b EXCEPT !.ready = @ \cup {t}]
                           ELSE [b EXCEPT !.notready = @ \cup {t}]}

\* One iteration of the broadcast case's range loop: a non-blocking send,
\* and the default branch when the send cannot complete.
HubRangeVisit(t) ==
    /\ hpc = "range"
    /\ t \in htodo
    /\ IF sendClosed[t]
       THEN Panic
       ELSE /\ IF CanAccept(t)
               THEN /\ Handoff(t)
                    /\ UNCHANGED <<clients, sendClosed, removedAt, nRemoved, nClosed>>
               ELSE /\ CloseAndDelete(t)
                    /\ enq' = [d \in Conns |->
                                  IF d \in EvictionNotice(clients, t)
                                  THEN Append(enq[d], [msg |-> LeftMsg, ev |-> hev])
                                  ELSE enq[d]]
                    /\ UNCHANGED <<wpc, wmsg>>
            /\ blog' = Visited(t)
            /\ IF htodo = {t}
               THEN HubIdle
               ELSE /\ htodo' = htodo \ {t}
                    /\ UNCHANGED <<hpc, hconn, hmsg, hcur, hev>>
            /\ UNCHANGED <<wsp, rpc, rmsg, sockClosed, paused, reads, werrs, rread,
                           admitted, jsnap, lsnap, wire, unregSent, sockCloses,
                           readFailed, writeFailed>>

\* --------------------------------------------------------- Client.read
ReadOk(c, p) ==
    /\ hpc # "panic"
    /\ rpc[c] = "read"
    /\ ~sockClosed[c]
    /\ reads < MaxReads
    /\ reads' = reads + 1
    /\ rread' = [rread EXCEPT ![c] = [n |-> reads + 1, payload |-> p]]
    /\ rmsg' = [rmsg EXCEPT ![c] = Marshal(ID(c), "", p)]
    /\ rpc' = [rpc EXCEPT ![c] = "bcast"]
    /\ UNCHANGED <<hubVars, wsp, wpc, wmsg, sendClosed, sockClosed, paused, werrs,
                   hev, admitted, jsnap, lsnap, blog, removedAt, nRemoved, nClosed, enq, wire,
                   unregSent, sockCloses, readFailed, writeFailed>>

ReadFail(c) ==
    /\ hpc # "panic"
    /\ rpc[c] = "read"
    /\ rpc' = [rpc EXCEPT ![c] = "unreg1"]
    /\ readFailed' = [readFailed EXCEPT ![c] = TRUE]
    /\ UNCHANGED <<hubVars, wsp, rmsg, wpc, wmsg, sendClosed, sockClosed, paused,
                   reads, werrs, rread, hev, admitted, jsnap, lsnap, blog, removedAt, nRemoved, nClosed, enq,
                   wire, unregSent, sockCloses, writeFailed>>

\* c.socket.Close() after either unregister send.
ReadClose(c) ==
    /\ hpc # "panic"
    /\ rpc[c] \in {"close1", "close2"}
    /\ rpc' = [rpc EXCEPT ![c] = IF @ = "close1" THEN "unreg2" ELSE "done"]
    /\ sockClosed' = [sockClosed EXCEPT ![c] = TRUE]
    /\ sockCloses' = [sockCloses EXCEPT ![c] = @ + 1]
    /\ UNCHANGED <<hubVars, wsp, rmsg, wpc, wmsg, sendClosed, paused, reads, werrs, rread,
                   hev, admitted, jsnap, lsnap, blog, removedAt, nRemoved, nClosed, enq, wire,
                   unregSent, readFailed, writeFailed>>

\* -------------------------------------------------------- Client.write
\* A Transport write returns: at once unless the peer has stopped consuming,
\* and with an error once the Transport is closed.
WriteReturns(c) == ~paused[c] \/ sockClosed[c]

\* The outcomes of a Transport write: an error once the Transport is closed,
\* success or an error (the peer reset the stream) before.
WriteOutcome(c, ok) ==
    IF sockClosed[c] THEN ~ok ELSE ok \/ werrs < MaxWriteErrs

WriteRecvClosed(c) ==
    /\ hpc # "panic"
    /\ wpc[c] = "recv"
    /\ sendClosed[c]
    /\ wpc' = [wpc EXCEPT ![c] = "closeframe"]
    /\ UNCHANGED <<hubVars, wsp, rpc, rmsg, wmsg, sendClosed, sockClosed, paused,
                   reads, werrs, histVars>>

AfterTextWrite_Stop(ok) == "done"

AfterTextWrite_StopOnError(ok) == IF ok THEN "recv" ELSE "sockclose"

\* What the write pump does once WriteMessage(TextMessage, ...) has returned.
AfterTextWrite(ok) == "recv"

WriteText(c, ok) ==
    /\ hpc # "panic"
    /\ wpc[c] = "text"
    /\ WriteReturns(c)
    /\ WriteOutcome(c, ok)
    /\ werrs' = IF ~ok /\ ~sockClosed[c] THEN werrs + 1 ELSE werrs
    /\ wpc' = [wpc EXCEPT ![c] = AfterTextWrite(ok)]
    /\ wmsg' = [wmsg EXCEPT ![c] = NoMsg]
    /\ wire' = [wire EXCEPT ![c] = Append(@, [type |-> "text", msg |-> wmsg[c], ok |-> ok])]
    /\ writeFailed' = [writeFailed EXCEPT ![c] = @ \/ ~ok]
    /\ UNCHANGED <<hubVars, wsp, rpc, rmsg, sendClosed, sockClosed, paused,
                   reads, rread, hev, admitted, jsnap, lsnap, blog, removedAt, nRemoved, nClosed, enq,
                   unregSent, sockCloses, readFailed>>

WriteCloseFrame(c, ok) ==
    /\ hpc # "panic"
    /\ wpc[c] = "closeframe"
    /\ WriteReturns(c)
    /\ WriteOutcome(c, ok)
    /\ werrs' = IF ~ok /\ ~sockClosed[c] THEN werrs + 1 ELSE werrs
    /\ wpc' = [wpc EXCEPT ![c] = "sockclose"]
    /\ wire' = [wire EXCEPT ![c] = Append(@, [type |-> "close", msg |-> NoMsg, ok |-> ok])]
    /\ writeFailed' = [writeFailed EXCEPT ![c] = @ \/ ~ok]
    /\ UNCHANGED <<hubVars, wsp, rpc, rmsg, wmsg, sendClosed, sockClosed, paused,
                   reads, rread, hev, admitted, jsnap, lsnap, blog, removedAt, nRemoved, nClosed, enq,
                   unregSent, sockCloses, readFailed>>

\* The deferred c.socket.Close() of the write pump.
WriteSockClose(c) ==
    /\ hpc # "panic"
    /\ wpc[c] = "sockclose"
    /\ wpc' = [wpc EXCEPT ![c] = "done"]
    /\ sockClosed' = [sockClosed EXCEPT ![c] = TRUE]
    /\ sockCloses' = [sockCloses EXCEPT ![c] = @ + 1]
    /\ UNCHANGED <<hubVars, wsp, rpc, rmsg, wmsg, sendClosed, paused, reads, werrs, rread,
                   hev, admitted, jsnap, lsnap, blog, removedAt, nRemoved, nClosed, enq, wire,
                   unregSent, readFailed, writeFailed>>

\* ---------------------------------------------------------- environment
\* The peer of c stops consuming for good: the Transport write in progress,
\* and every later one, blocks until the Transport is closed.
Pause(c) ==
    /\ hpc # "panic"
    /\ wpc[c] \in {"text", "closeframe"}
    /\ ~paused[c]
    /\ ~sockClosed[c]
    /\ Cardinality({d \in Conns : paused[d]}) < MaxPaused
    /\ paused' = [paused EXCEPT ![c] = TRUE]
    /\ UNCHANGED <<hubVars, wsp, rpc, rmsg, wpc, wmsg, sendClosed, sockClosed,
                   reads, werrs, histVars>>

\* ------------------------------------------------------- specification
HubStep ==
    \/ \E c \in Conns : HubRecvRegister(c)
    \/ HubRegister
    \/ \E c \in Conns : HubRecvUnregister(c)
    \/ HubUnregister
    \/ HubSend
    \/ \E c \in Conns : HubRecvBroadcast(c)
    \/ \E t \in Conns : HubRangeVisit(t)

PumpStep ==
    \/ \E c \in Conns : StartRead(c)
    \/ \E c \in Conns : StartWrite(c)
    \/ \E c \in Conns : ReadClose(c)
    \/ \E c \in Conns : WriteRecvClosed(c)
    \/ \E c \in Conns : WriteSockClose(c)

TransportStep ==
    \/ \E c \in Conns, ok \in BOOLEAN : WriteText(c, ok)
    \/ \E c \in Conns, ok \in BOOLEAN : WriteCloseFrame(c, ok)

EnvStep ==
    \/ \E c \in Conns : Connect(c)
    \/ \E c \in Conns, p \in Payloads : ReadOk(c, p)
    \/ \E c \in Conns : ReadFail(c)
    \/ \E c \in Conns : Pause(c)

Next == HubStep \/ PumpStep \/ TransportStep \/ EnvStep

Spec == Init /\ [][Next]_vars

\* ================================================================ claims
Removed == {c \in Conns : removedAt[c] # NoRemoval}

\* A goroutine is parked in a send on one of the Hub's three channels.
Pending ==
    \E c \in Conns : wsp[c] = "register" \/ rpc[c] \in {"bcast", "unreg1", "unreg2"}

\* C1: a connection is in the registry exactly when the Hub has processed
\* its register event and has not removed it since; and when the Hub is
\* idle with nothing pending, the size of the registry is the number of
\* connections admitted minus the number of removals.
C1_RegistryIsAdmittedMinusRemoved ==
    /\ clients = admitted \ Removed
    /\ (hpc = "select" /\ ~Pending)
          => Cardinality(clients) = Cardinality(admitted) - nRemoved

C1_Witness ==
    /\ hpc = "select" /\ ~Pending
    /\ Cardinality(admitted) = 2
    /\ \E c \in Conns : removedAt[c].kind = "broadcast"
    /\ Cardinality(clients) = 1

\* C2: a connection's outbound queue is closed at most once, and for a
\* connection that was ever registered the queue is closed exactly when
\* the connection is no longer in the registry.
C2_QueueClosedOnceAtRemoval ==
    \A c \in Conns :
        /\ nClosed[c] <= 1
        /\ c \in admitted => (sendClosed[c] <=> c \notin clients)

\* An evicted connection both of whose unregister events the Hub has taken.
C2_Witness ==
    \E c \in Conns :
        /\ removedAt[c].kind = "broadcast"
        /\ unregSent[c] = 2
        /\ hpc = "select"
        /\ nClosed[c] = 1

\* C3: the Hub never panics, and it never has a send pending or ahead of it
\* on an outbound queue that is closed.
C3_NoSendOnClosedQueue ==
    /\ hpc # "panic"
    /\ hpc = "send" => ~sendClosed[hcur] /\ \A t \in htodo : ~sendClosed[t]
    /\ hpc = "range" => \A t \in htodo : ~sendClosed[t]

\* The Hub is fanning out while some connection's queue is closed already.
C3_Witness ==
    /\ hpc \in {"send", "range"}
    /\ \E c \in Conns : sendClosed[c] /\ removedAt[c].kind = "broadcast"
    /\ \E c \in Conns : readFailed[c]

\* ------------------------------------------------------------ vocabulary
\* How many times the Hub handed connection d a message of event e.
Count(d, e) == Cardinality({i \in 1..Len(enq[d]) : enq[d][i].ev = e})

\* The messages the Hub handed connection d for event e.
MsgsOf(d, e) == {enq[d][i].msg : i \in {j \in 1..Len(enq[d]) : enq[d][j].ev = e}}

RegisterEvent(a) == [n |-> 1, kind |-> "register", conn |-> a]
UnregisterEvent(a) == [n |-> 1, kind |-> "unregister", conn |-> a]

\* The Hub removed connection d while processing event e.
RemovedBy(d, e) ==
    removedAt[d].kind = e.kind /\ removedAt[d].n = e.n /\ removedAt[d].conn = e.conn

\* The Hub has finished the event e it once took.
Finished(e) == hev # e

\* Every step but the environment's: the Hub, the pumps, Transport writes
\* that return.
Internal == HubStep \/ PumpStep \/ TransportStep

\* The program has come to rest: only a new connection, a Transport read or
\* a stalling peer can change the state.
Quiescent == ~ENABLED Internal

\* The write pump of c is in a Transport write that does not return.
Stalled(c) == wpc[c] = "text" /\ paused[c] /\ ~sockClosed[c]

\* C4 as stated: once the Hub has processed a broadcast of content C read
\* from connection A, every other connection that was registered when the
\* Hub took it has been handed exactly one envelope {sender: A, content: C}.
C4_EveryOtherReceivesOnce ==
    \A b \in blog :
        Finished(b.ev) =>
            \A d \in b.snap \ {b.ev.conn} :
                /\ Count(d, b.ev) = 1
                /\ \A m \in MsgsOf(d, b.ev) :
                       SenderOf(m) = ID(b.ev.conn) /\ ContentOf(m) = b.payload

\* C4 amended: once the Hub has processed the broadcast, every connection
\* that was registered when the Hub took it (A included) has either been
\* handed the envelope exactly once, its write pump having been parked in
\* its receive when the loop came to it, or has been evicted by this
\* broadcast without being handed it; nobody else is handed it; and the
\* envelope carries sender = A's identity and content = C with the bytes
\* that are not valid UTF-8 replaced by U+FFFD.
C4_ReadyOnesReceiveOnce ==
    \A b \in blog :
        /\ \A d \in Conns :
               /\ Count(d, b.ev) <= 1
               /\ Count(d, b.ev) = 1 <=> d \in b.ready
               /\ \A m \in MsgsOf(d, b.ev) :
                      /\ SenderOf(m) = ID(b.ev.conn)
                      /\ ContentOf(m) = ToValidUTF8(b.payload)
                      /\ RecipientOf(m) = ""
        /\ b.ready \cup b.notready \subseteq b.snap
        /\ b.ready \cap b.notready = {}
        /\ \A d \in b.notready : RemovedBy(d, b.ev)
        /\ Finished(b.ev) => b.ready \cup b.notready = b.snap

\* A finished broadcast that reached one connection and evicted the other.
C4_Witness ==
    \E b \in blog :
        /\ Finished(b.ev)
        /\ b.ready # {} /\ b.notready # {}
        /\ b.ev.conn \in b.notready
        /\ b.payload = <<"h">>

\* C5 as stated: the Hub is never blocked in an enqueue on the queue of a
\* connection whose write pump has stopped receiving for good.
C5_HubNeverBlockedOnStalledConsumer ==
    ~(hpc = "send" /\ Stalled(hcur))

\* Once the Hub is blocked on a stalled consumer it stays blocked: no step
\* of the program or of its environment releases it.
BlockedForGood ==
    [][(hpc = "send" /\ Stalled(hcur))
          => (hpc' = "send" /\ hcur' = hcur /\ clients' = clients /\ enq' = enq)]_vars

\* C6: a connection that cannot accept when the broadcast loop comes to it
\* is removed by that broadcast and handed nothing by it; a connection whose
\* consumer was stalled when the Hub took the broadcast is among them once
\* the broadcast is finished; the connections that can accept are handed the
\* broadcast and stay registered; and after its removal a connection is
\* handed nothing more.
C6_StalledConsumerEvicted ==
    /\ \A b \in blog :
          /\ \A d \in b.notready :
                 /\ d \notin clients
                 /\ RemovedBy(d, b.ev)
                 /\ Count(d, b.ev) = 0
          /\ \A d \in b.ready : Count(d, b.ev) = 1 /\ ~RemovedBy(d, b.ev)
          /\ Finished(b.ev) => b.stalled \subseteq b.notready
          /\ Finished(b.ev) => b.snap = b.ready \cup b.notready
    /\ \A c \in Removed : Len(enq[c]) = removedAt[c].len

\* A finished broadcast that evicted a stalled consumer and reached the
\* other connection.
C6_Witness ==
    \E b \in blog :
        /\ Finished(b.ev)
        /\ b.stalled # {}
        /\ b.ready # {}
        /\ \E c \in b.stalled : Len(enq[c]) = 1 /\ sendClosed[c]

C8_ReadFailureTearsDownAndAnnounces ==
    \A a \in Conns :
        (readFailed[a] /\ a \in admitted /\ Quiescent) =>
            /\ a \notin clients
            /\ sendClosed[a]
            /\ \A d \in lsnap[a] : Count(d, UnregisterEvent(a)) = 1
            /\ Count(a, UnregisterEvent(a)) = 0
            /\ unregSent[a] = 2

\* C9 as stated: a read pump sends its connection on the unregister channel
\* at most once, and exactly once by the time it has terminated.
C9_SingleUnregister ==
    \A c \in Conns :
        /\ unregSent[c] <= 1
        /\ rpc[c] = "done" => unregSent[c] = 1

\* C10 as stated, at rest: when a Transport write of c has failed and the
\* program has come to rest with no read of c having failed, c is torn down.
C10_WriteErrorTearsDown ==
    \A c \in Conns :
        (writeFailed[c] /\ ~readFailed[c] /\ Quiescent) =>
            c \notin clients /\ sendClosed[c] /\ sockClosed[c]

\* ------------------------------------------------------------- lifecycle
\* Both pumps of c have been started by wsPage.
Active(c) == wsp[c] = "done"

\* C11 as stated: a connection the Hub has removed had both its pumps
\* started, and was removed by an unregister event after its read failed or
\* by a broadcast whose send it could not accept.
C11_RemovedOnlyAfterActive ==
    \A c \in Removed :
        /\ Active(c)
        /\ \/ removedAt[c].kind = "unregister" /\ readFailed[c]
           \/ /\ removedAt[c].kind = "broadcast"
              /\ \E b \in blog : RemovedBy(c, b.ev) /\ c \in b.notready

\* The life of c is ending: its read has failed, or a broadcast evicted it.
Ending(c) == readFailed[c] \/ removedAt[c].kind = "broadcast"

\* Nothing is left for a fair scheduler to run: no step of the Hub, of a
\* pump or of a Transport write is enabled, and no read is pending on a
\* closed Transport (such a read fails at once).
AtRest == Quiescent /\ \A c \in Conns : ~(rpc[c] = "read" /\ sockClosed[c])

\* The final state of the lifecycle.
TornDown(c) ==
    /\ c \notin clients
    /\ sendClosed[c]
    /\ sockClosed[c]
    /\ rpc[c] = "done"
    /\ wpc[c] = "done"

\* C12 as stated, at rest: when the program has come to rest, every admitted
\* connection whose read failed or that a broadcast evicted, and whose own
\* Transport is not stalled, is out of the registry with its queue closed,
\* its Transport closed and both its pumps terminated.
C12_BothEndsConverge ==
    \A c \in Conns :
        (Ending(c) /\ c \in admitted /\ ~paused[c] /\ AtRest) => TornDown(c)

\* Lemma (holds): the two ends do converge whenever no Transport write of
\* any connection is stalled.
ConvergeWithoutStall ==
    \A c \in Conns :
        (Ending(c) /\ c \in admitted /\ (\A d \in Conns : ~paused[d]) /\ AtRest)
            => TornDown(c)

\* C13: Removed is terminal. No step puts a removed connection back in the
\* registry, changes the record of its removal, or hands anything more to
\* its queue.
C13_RemovedIsTerminal ==
    [][\A c \in Removed :
           /\ c \notin clients'
           /\ removedAt'[c] = removedAt[c]
           /\ enq'[c] = enq[c]]_vars

\* c was admitted and removed before a was admitted; the Hub has since
\* finished a's registration and a broadcast of a, and c is still out and
\* has been handed nothing since its removal.
C13_Witness ==
    \E c \in Removed : \E a \in admitted \ {c} :
        /\ c \in admitted
        /\ a \notin jsnap[c]
        /\ c \notin jsnap[a]
        /\ \E b \in blog : b.ev.conn = a /\ Finished(b.ev) /\ c \notin b.snap
        /\ a \in clients
        /\ c \notin clients
        /\ Len(enq[c]) = removedAt[c].len

\* ----------------------------------------------------------------- order
IsText(w) == w.type = "text"

\* The text frames c's write pump has passed to WriteMessage, in order.
TextCalls(c) == SelectSeq(wire[c], IsText)

\* The write pump of c has passed to its Transport exactly the messages the
\* Hub enqueued for c, in the order of enqueueing (the last one may still be
\* in the pump's hands).
WrittenInOrder(c) ==
    /\ Len(TextCalls(c)) = Len(enq[c]) - (IF wpc[c] = "text" THEN 1 ELSE 0)
    /\ \A i \in 1..Len(TextCalls(c)) : TextCalls(c)[i].msg = enq[c][i].msg

\* No queue holds anything enqueued by event e.
Fresh(e) == \A c \in Conns : \A i \in 1..Len(enq[c]) : enq[c][i].ev # e

\* One step of an uninterleaved Hub: the event in hand changes only by
\* being finished; an event is taken only when none is in hand, and it is
\* one that has enqueued nothing before; the registry changes, and a queue
\* grows, only for the event in hand, a queue growing by one entry stamped
\* with that event.
OneEventAtATime ==
    /\ hev # NoEvent => hev' \in {hev, NoEvent}
    /\ (hev = NoEvent /\ hev' # NoEvent) => Fresh(hev')
    /\ clients' # clients => hev # NoEvent
    /\ \A c \in Conns :
           enq'[c] # enq[c] =>
               /\ hev # NoEvent
               /\ enq'[c] = Append(enq[c], [msg |-> hmsg, ev |-> hev])

\* C14: Hub events do not interleave (every enqueue and registry change of
\* an event happens while that event is the one in hand, and an event is in
\* hand only once), and every write pump writes the messages enqueued for
\* its connection in the order the Hub enqueued them.
C14_EventsDoNotInterleave ==
    /\ [](\A c \in Conns : WrittenInOrder(c))
    /\ [][OneEventAtATime]_vars

\* Connection c has been handed messages of two different events, with
\* different contents, and has written both; the second event also reached
\* another connection.
C14_Witness ==
    \E c \in Conns : \E d \in Conns \ {c} :
        /\ Len(enq[c]) = 2
        /\ enq[c][1].ev # enq[c][2].ev
        /\ enq[c][1].msg # enq[c][2].msg
        /\ Len(TextCalls(c)) = 2
        /\ \E i \in 1..Len(enq[d]) : enq[d][i].ev = enq[c][2].ev
        /\ hev = NoEvent

\* ---------------------------------------------------------------- frames
\* The entries of every queue that announce a departure.
LeftEntries ==
    {e \in UNION {{enq[d][i] : i \in 1..Len(enq[d])} : d \in Conns} : e.msg = LeftMsg}

\* C15: when a broadcast has evicted c, no "left" announcement for c is in
\* any queue: none enqueued by the evicting broadcast, none by an unregister
\* event of c.
C15_EvictionIsSilent ==
    \A c \in Removed :
        removedAt[c].kind = "broadcast" =>
            \A e \in LeftEntries :
                /\ ~RemovedBy(c, e.ev)
                /\ ~(e.ev.kind = "unregister" /\ e.ev.conn = c)

\* c was evicted by a broadcast while d stayed registered; c's read pump
\* has since sent c on the unregister channel twice, the Hub has taken both
\* and is idle, and d has been handed the broadcast.
C15_Witness ==
    \E c \in Removed : \E d \in clients :
        /\ removedAt[c].kind = "broadcast"
        /\ unregSent[c] = 2
        /\ hpc = "select"
        /\ rpc[c] = "done"
        /\ \E i \in 1..Len(enq[d]) : RemovedBy(c, enq[d][i].ev)

\* The Hub holds an unregister event for a connection that is not in the
\* registry, and this step finishes it.
NoOpUnregister == hpc = "unreg" /\ hconn \notin clients /\ hpc' # "unreg"

\* C16: the step by which the Hub handles an unregister event for a
\* connection that is not in the registry returns to the select and leaves
\* the registry, every queue (open or closed, and what it was handed), what
\* every write pump holds and has written, and the removal records as they
\* were.
C16_UnregisterOfAbsentIsNoOp ==
    [][NoOpUnregister =>
           /\ hpc' = "select"
           /\ clients' = clients
           /\ sendClosed' = sendClosed
           /\ nClosed' = nClosed
           /\ enq' = enq
           /\ wmsg' = wmsg
           /\ wire' = wire
           /\ removedAt' = removedAt
           /\ nRemoved' = nRemoved]_vars

\* c was removed by its first unregister, which was announced once to d;
\* the duplicate unregister of c has been handed to the Hub and finished,
\* and d has still been told once.
C16_Witness ==
    \E c \in Removed : \E d \in clients :
        /\ removedAt[c].kind = "unregister"
        /\ unregSent[c] = 2
        /\ hpc = "select"
        /\ Count(d, UnregisterEvent(c)) = 1
        /\ Count(d, [UnregisterEvent(c) EXCEPT !.n = 2]) = 0

\* The positions of the close frames among c's WriteMessage calls.
CloseCalls(c) == {i \in 1..Len(wire[c]) : wire[c][i].type = "close"}

\* C17: a write pump is past its loop only if its queue has been closed and
\* its connection is out of the registry; it makes one close-frame write,
\* as its last write, exactly when it has left the loop; and once it has
\* terminated its Transport is closed.
C17_WritePumpStopsOnlyOnClosedQueue ==
    \A c \in Conns :
        /\ wpc[c] \in {"closeframe", "sockclose", "done"} =>
               sendClosed[c] /\ c \notin clients
        /\ CloseCalls(c) = IF wpc[c] \in {"sockclose", "done"}
                           THEN {Len(wire[c])}
                           ELSE {}
        /\ wpc[c] \in {"sockclose", "done"} => Len(wire[c]) >= 1
        /\ wpc[c] = "done" => sockClosed[c]

\* The write pump of c wrote a text frame, then saw its queue closed, wrote
\* the close frame, closed the Transport and terminated.
C17_Witness ==
    \E c \in Conns :
        /\ wpc[c] = "done"
        /\ Len(wire[c]) >= 2
        /\ wire[c][1].type = "text"
        /\ wire[c][Len(wire[c])].type = "close"
        /\ sockClosed[c]

\* The envelope of payload p sent by connection a.
Envelope(a, p) == Marshal(ID(a), "", p)

\* C18: a finished broadcast has visited every connection that was in the
\* registry when the Hub took it, its sender included: a sender that could
\* accept was handed its own envelope once and stays registered, a sender
\* that could not was evicted by its own broadcast and handed nothing; and
\* no connection is ever handed the announcement of its own registration
\* or of its own unregistration.
C18_BroadcastExcludesNoOne ==
    /\ \A b \in blog :
          LET a == b.ev.conn
          IN (Finished(b.ev) /\ a \in b.snap) =>
                 /\ b.ready \cup b.notready = b.snap
                 /\ a \in b.ready =>
                        /\ Count(a, b.ev) = 1
                        /\ MsgsOf(a, b.ev) = {Envelope(a, b.payload)}
                        /\ ~RemovedBy(a, b.ev)
                 /\ a \in b.notready =>
                        /\ Count(a, b.ev) = 0
                        /\ RemovedBy(a, b.ev)
                        /\ a \notin clients
    /\ \A a \in Conns : \A i \in 1..Len(enq[a]) :
          enq[a][i].ev.kind \in {"register", "unregister"} => enq[a][i].ev.conn # a

\* Connection a was told of d's registration but not of its own, sent a
\* message, was handed its own envelope and wrote it to its Transport.
C18_Witness ==
    \E b \in blog : \E d \in Conns \ {b.ev.conn} :
        LET a == b.ev.conn
        IN /\ Finished(b.ev)
           /\ a \in b.ready
           /\ Count(a, b.ev) = 1
           /\ Count(a, RegisterEvent(d)) = 1
           /\ Count(a, RegisterEvent(a)) = 0
           /\ \E i \in 1..Len(wire[a]) :
                  wire[a][i] = [type |-> "text", msg |-> Envelope(a, b.payload), ok |-> TRUE]

\* ------------------------------------------------------------- deadlock
\* No Transport write in progress is being held up by a peer.
TransportResponsive ==
    \A c \in Conns : wpc[c] \in {"text", "closeframe"} => WriteReturns(c)

\* C19: in every reachable state in which no Transport write is held up
\* and an event is pending (a goroutine is parked in a send on one of the
\* Hub's channels, or the Hub is in the middle of a case), some step of the
\* Hub, of a pump or of a Transport write can be taken. The inputs of a
\* run are bounded, so a set of goroutines blocked on each other for good
\* would show as such a state with no step left.
C19_DeadlockFree ==
    (TransportResponsive /\ (Pending \/ hpc # "select")) => ENABLED Internal

\* The Hub is parked in manager.send on the queue of a connection whose
\* write pump is busy writing, while that connection's read pump is parked
\* in its send on the unregister channel, and the other connection's
\* admission has handed it to the Hub: each waits for another, and the
\* write pump's return unties them.
C19_Witness ==
    /\ TransportResponsive
    /\ hpc = "send"
    /\ wpc[hcur] = "text"
    /\ rpc[hcur] = "unreg1"
    /\ \E d \in Conns \ {hcur} : hev = RegisterEvent(d)

====
